---------------------------- MODULE Spec2Model ----------------------------
(***************************************************************************)
(* A model of nim.py: the Nim game board (class Nim) and the tabular       *)
(* Q-learning agent (class NimAI).                                         *)
(*                                                                         *)
(* Pile indexes are 0-based as in the source; a pile list is a sequence,   *)
(* so pile i of the source is piles[i + 1] here.                           *)
(***************************************************************************)
EXTENDS Integers, Sequences, FiniteSets, TLC

VARIABLES
    initial,    \* the argument Nim.__init__ was given
    piles,      \* Nim.piles
    player,     \* Nim.player
    winner,     \* Nim.winner
    call,       \* the last call made on the game: its operation, argument and outcome
    q,          \* NimAI.q: a function from <<state, action>> to a value
    alpha,      \* NimAI.alpha, as <<numerator, denominator>>
    updates,    \* the number of update calls made on the agent
    aicall,     \* the last call made on the agent by its callers other than train
    moves,      \* the number of successful moves made on the game
    pc,         \* where train is: "for", "while", "done" or "raised" ("none": not called)
    numGames,   \* the argument n of train
    games,      \* the number of games train has completed
    last,       \* the dictionary last of train: per player, the last state and action
    ply,        \* the last iteration of the game loop of train and the updates it made
    played      \* the (state, action) pairs played in the current game, in order

gameVars == <<initial, piles, player, winner, call, moves>>

aiVars == <<q, alpha, updates, aicall>>

trainVars == <<pc, numGames, games, last, ply, played>>

vars == <<initial, piles, player, winner, call, q, alpha, updates, aicall,
          moves, pc, numGames, games, last, ply, played>>

-----------------------------------------------------------------------------
(* Bounds of the enumerated inputs.                                        *)

\* Largest number of piles of an enumerated initial configuration.
MaxPiles == 2

\* Largest pile size of an enumerated initial configuration.
MaxPile == 2

\* The default argument of Nim.__init__.
DefaultPiles == <<1, 3, 5, 7>>

\* Python's None (winner unset).
None == -1

-----------------------------------------------------------------------------
(* Enumeration of inputs.                                                  *)

RECURSIVE SeqsUpTo(_, _)
\* All sequences of at most n elements of S.
SeqsUpTo(S, n) ==
    IF n = 0 THEN {<<>>}
    ELSE SeqsUpTo(S, n - 1) \cup {Append(s, x) : s \in SeqsUpTo(S, n - 1), x \in S}

RECURSIVE MaxOf(_, _)
\* The largest of the first k elements of p (0 for none).
MaxOf(p, k) == IF k = 0 THEN 0
               ELSE IF p[k] > MaxOf(p, k - 1) THEN p[k] ELSE MaxOf(p, k - 1)

RECURSIVE SumOf(_, _)
\* The sum of the first k piles of p.
SumOf(p, k) == IF k = 0 THEN 0 ELSE p[k] + SumOf(p, k - 1)

-----------------------------------------------------------------------------
(* class Nim                                                               *)

RECURSIVE actions_from(_, _)
\* The outer loop of available_actions from pile index i (0-based) on:
\* for each pile, every j in range(1, pile + 1) is added as (i, j).
actions_from(p, i) ==
    IF i >= Len(p) THEN {}
    ELSE {<<i, j>> : j \in 1..p[i + 1]} \cup actions_from(p, i + 1)

\* Mutant: range(1, pile) in place of range(1, pile + 1).
RECURSIVE actions_from_short(_, _)
actions_from_short(p, i) ==
    IF i >= Len(p) THEN {}
    ELSE {<<i, j>> : j \in 1..(p[i + 1] - 1)} \cup actions_from_short(p, i + 1)

available_actions_short(p) == actions_from_short(p, 0)

available_actions(p) == actions_from(p, 0)

other_player(pl) == IF pl = 1 THEN 0 ELSE 1

\* all(pile == 0 for pile in self.piles)
all_zero(p) == \A k \in 1..Len(p) : p[k] = 0

\* Mutant: the winner check is dropped from the error checks.
move_error_no_winner_check(p, w, action) ==
    LET pile == action[1]
        count == action[2]
    IN  IF pile < 0 \/ pile >= Len(p) THEN "InvalidPile"
        ELSE IF count < 1 \/ count > p[pile + 1] THEN "InvalidCount"
        ELSE "ok"

\* Mutant: count >= piles[pile] in place of count > piles[pile].
move_error_strict(p, w, action) ==
    LET pile == action[1]
        count == action[2]
    IN  IF w # None THEN "GameAlreadyWon"
        ELSE IF pile < 0 \/ pile >= Len(p) THEN "InvalidPile"
        ELSE IF count < 1 \/ count >= p[pile + 1] THEN "InvalidCount"
        ELSE "ok"

\* The error checks of move, in the order of the if/elif chain. The source
\* raises Exception("Game already won"), Exception("Invalid pile") and
\* Exception("Invalid number of objects"); "ok" is no exception.
move_error(p, w, action) ==
    LET pile == action[1]
        count == action[2]
    IN  IF w # None THEN "GameAlreadyWon"
        ELSE IF pile < 0 \/ pile >= Len(p) THEN "InvalidPile"
        ELSE IF count < 1 \/ count > p[pile + 1] THEN "InvalidCount"
        ELSE "ok"

\* Mutant: self.piles[pile] += count
piles_after_added(p, action) == [p EXCEPT ![action[1] + 1] = @ + action[2]]

\* Mutant: self.piles[pile] = count
piles_after_assigned(p, action) == [p EXCEPT ![action[1] + 1] = action[2]]

\* self.piles[pile] -= count
piles_after(p, action) == [p EXCEPT ![action[1] + 1] = @ - action[2]]

\* Mutant: the winner is recorded before the player is switched.
winner_after_mover(p2, mover, w) ==
    IF all_zero(p2) THEN mover ELSE w

\* Mutant: the check for a winner is left out.
winner_after_never(p2, mover, w) == w

\* switch_player() and then: if all piles are 0, winner = self.player,
\* the player after the switch. mover is self.player before the call.
winner_after(p2, mover, w) ==
    IF all_zero(p2) THEN other_player(mover) ELSE w

\* Nim.__init__(initial)
NimInit(init) ==
    /\ initial = init
    /\ piles = init
    /\ player = 0
    /\ winner = None
    /\ moves = 0
    /\ call = [op |-> "init", action |-> <<0, 0>>, result |-> "ok", ret |-> {}]

\* move(action): an exception leaves the object as it was.
Move(action) ==
    LET err == move_error(piles, winner, action)
    IN  /\ call' = [op |-> "move", action |-> action, result |-> err, ret |-> {}]
        /\ IF err = "ok"
           THEN /\ piles' = piles_after(piles, action)
                /\ player' = other_player(player)
                /\ winner' = winner_after(piles_after(piles, action), player, winner)
                /\ moves' = moves + 1
           ELSE UNCHANGED <<piles, player, winner, moves>>
        /\ UNCHANGED initial

\* Nim.available_actions(game.piles), as play() calls it at every turn.
AvailableActions ==
    /\ call' = [op |-> "available_actions", action |-> <<0, 0>>, result |-> "ok",
                ret |-> available_actions(piles)]
    /\ UNCHANGED <<initial, piles, player, winner, moves>>

-----------------------------------------------------------------------------
(* class NimAI                                                             *)
(*                                                                         *)
(* A value v of the source (a float) is the integer v * Scale here. With   *)
(* alpha a multiple of 1/2 every value an update stores is a multiple of   *)
(* 1/2^n after n updates, which a float holds exactly, so the arithmetic   *)
(* below is the source's.                                                  *)

\* The most update calls made on one agent by arbitrary callers.
MaxUpdates == 2

\* The most games train is asked to play.
MaxGames == 3

\* The piles of the games train plays. The source plays on Nim(), the
\* default piles; the games here are on fewer objects, with two piles that
\* are not empty as there, so that the tables of all games can be enumerated.
TrainPiles == <<1, 3>>

\* An update is made after every ply, and one more at the end of a game.
MaxTrainUpdates == MaxGames * (SumOf(TrainPiles, Len(TrainPiles)) + 1)

Scale == 2 ^ (MaxUpdates + MaxTrainUpdates)

\* The default alpha=0.5 of NimAI.__init__, and alpha=1.
Alphas == {<<1, 2>>, <<1, 1>>}

\* The rewards train passes to update.
Rewards == {-1, 0, 1}

\* The agent is asked about the positions of a game started on these piles.
StudyPiles == <<1, 2>>

\* The positions of a game on StudyPiles, as lists of piles.
StudyStates ==
    {s \in SeqsUpTo(0..MaxOf(StudyPiles, Len(StudyPiles)), Len(StudyPiles)) :
        /\ Len(s) = Len(StudyPiles)
        /\ \A k \in 1..Len(s) : s[k] <= StudyPiles[k]}

\* self.q = dict()
EmptyTable == [k \in {} |-> 0]

\* Mutant: the lookup is self.q.setdefault(key, 0), which inserts the key.
table_after_setdefault(t, key) ==
    [k \in DOMAIN t \cup {key} |-> IF k \in DOMAIN t THEN t[k] ELSE 0]

\* The table after self.q.get(key): dict.get inserts nothing.
table_after_get(t, key) == t

\* Mutant: self.q = {key: value}, which drops the other entries.
table_set_alone(t, key, value) == [k \in {key} |-> value]

\* self.q[key] = value
table_set(t, key, value) ==
    [k \in DOMAIN t \cup {key} |-> IF k = key THEN value ELSE t[k]]

\* get_q_value: q_value = self.q.get(key); "if q_value:" is false for None
\* (no entry) and for a stored 0, and 0 is returned for both.
get_q_value(t, state, action) ==
    LET key == <<state, action>>
    IN  IF key \in DOMAIN t /\ t[key] # 0 THEN t[key] ELSE 0

\* q_value = self.q.get(key); q_value = q_value if q_value else 0
q_value_or_0(t, state, action) ==
    LET key == <<state, action>>
    IN  IF key \in DOMAIN t /\ t[key] # 0 THEN t[key] ELSE 0

\* Mutant: the estimate of future rewards is left out of the new value.
update_q_value_no_future(a, old_q, reward, future_rewards) ==
    old_q + (a[1] * ((reward * Scale) - old_q)) \div a[2]

\* Mutant: the reward is added outside the product with alpha.
update_q_value_reward_outside(a, old_q, reward, future_rewards) ==
    old_q + reward * Scale + (a[1] * (future_rewards - old_q)) \div a[2]

\* new_q = old_q + self.alpha * ((reward + future_rewards) - old_q)
update_q_value(a, old_q, reward, future_rewards) ==
    old_q + (a[1] * ((reward * Scale + future_rewards) - old_q)) \div a[2]

\* The orders in which "for action in actions" may visit the set actions.
RECURSIVE IterationOrders(_)
IterationOrders(S) ==
    IF S = {} THEN {<<>>}
    ELSE UNION {{<<x>> \o rest : rest \in IterationOrders(S \ {x})} : x \in S}

\* Mutant: the best value starts at 0 in place of None.
RECURSIVE best_value_loop_from_0(_, _, _, _, _)
best_value_loop_from_0(t, state, order, i, best) ==
    IF i > Len(order) THEN (IF best.set THEN best.value ELSE 0)
    ELSE LET q_value == q_value_or_0(t, state, order[i])
         IN  IF q_value > (IF best.set THEN best.value ELSE 0)
             THEN best_value_loop_from_0(t, state, order, i + 1,
                                         [set |-> TRUE, value |-> q_value])
             ELSE best_value_loop_from_0(t, state, order, i + 1, best)

\* The loop of best_future_reward from the i-th action of the iteration on;
\* best is best_action_q_value (set = FALSE for None).
RECURSIVE best_value_loop(_, _, _, _, _)
best_value_loop(t, state, order, i, best) ==
    IF i > Len(order) THEN best.value
    ELSE LET q_value == q_value_or_0(t, state, order[i])
         IN  IF ~best.set \/ q_value > best.value
             THEN best_value_loop(t, state, order, i + 1,
                                  [set |-> TRUE, value |-> q_value])
             ELSE best_value_loop(t, state, order, i + 1, best)

\* best_future_reward(state), the set of actions iterated in this order.
best_future_reward(t, state, order) ==
    IF order = <<>> THEN 0
    ELSE best_value_loop(t, state, order, 1, [set |-> FALSE, value |-> 0])

\* Mutant: the comparison keeps the lowest value.
RECURSIVE best_action_loop_lowest(_, _, _, _, _)
best_action_loop_lowest(t, state, order, i, best) ==
    IF i > Len(order) THEN best
    ELSE LET q_value == q_value_or_0(t, state, order[i])
         IN  IF ~best.set \/ q_value < best.value
             THEN best_action_loop_lowest(t, state, order, i + 1,
                      [set |-> TRUE, value |-> q_value, action |-> order[i]])
             ELSE best_action_loop_lowest(t, state, order, i + 1, best)

\* The loop of choose_action from the i-th action of the iteration on; best
\* holds best_action_q_value and best_action (set = FALSE for None).
RECURSIVE best_action_loop(_, _, _, _, _)
best_action_loop(t, state, order, i, best) ==
    IF i > Len(order) THEN best
    ELSE LET q_value == q_value_or_0(t, state, order[i])
         IN  IF ~best.set \/ q_value > best.value
             THEN best_action_loop(t, state, order, i + 1,
                      [set |-> TRUE, value |-> q_value, action |-> order[i]])
             ELSE best_action_loop(t, state, order, i + 1, best)

\* Mutant: the random action takes a count drawn from range(1, pile + 2).
choose_action_count_too_far(t, state, epsilon, lucky, order, pick) ==
    IF epsilon /\ lucky
    THEN IF order = <<>>
         THEN [kind |-> "IndexError", action |-> <<0, 0>>]
         ELSE [kind |-> "action",
               action |-> <<order[pick][1], state[order[pick][1] + 1] + 1>>]
    ELSE LET best == best_action_loop(t, state, order, 1,
                         [set |-> FALSE, value |-> 0, action |-> <<0, 0>>])
         IN  IF best.set
             THEN [kind |-> "action", action |-> best.action]
             ELSE [kind |-> "None", action |-> <<0, 0>>]

\* What choose_action does: it returns an action, returns None, or raises
\* the IndexError of random.choice on an empty list.
\*   epsilon  the argument epsilon
\*   lucky    random.random() < self.epsilon
\*   pick     the index random.choice draws in list(actions)
choose_action(t, state, epsilon, lucky, order, pick) ==
    IF epsilon /\ lucky
    THEN IF order = <<>>
         THEN [kind |-> "IndexError", action |-> <<0, 0>>]
         ELSE [kind |-> "action", action |-> order[pick]]
    ELSE LET best == best_action_loop(t, state, order, 1,
                         [set |-> FALSE, value |-> 0, action |-> <<0, 0>>])
         IN  IF best.set
             THEN [kind |-> "action", action |-> best.action]
             ELSE [kind |-> "None", action |-> <<0, 0>>]

\* The table after the lookups of a loop over the actions in this order.
RECURSIVE table_after_loop(_, _, _, _)
table_after_loop(t, state, order, i) ==
    IF i > Len(order) THEN t
    ELSE table_after_loop(table_after_get(t, <<state, order[i]>>), state, order, i + 1)

\* update(old_state, action, new_state, reward) on table t with alpha a, the
\* loop of its best_future_reward visiting the actions in this order: the
\* table it leaves.
update(t, a, old_state, action, new_state, reward, order) ==
    LET old == get_q_value(t, old_state, action)
        t1 == table_after_get(t, <<old_state, action>>)
        best_future == best_future_reward(t1, new_state, order)
        t2 == table_after_loop(t1, new_state, order, 1)
    IN  table_set(t2, <<old_state, action>>,
                  update_q_value(a, old, reward, best_future))

\* No call on the agent is under way.
NoCall == [op |-> "none", state |-> <<>>, action |-> <<0, 0>>, new_state |-> <<>>,
           reward |-> 0, epsilon |-> FALSE, lucky |-> FALSE, old |-> 0,
           best_future |-> 0, ret |-> 0,
           chosen |-> [kind |-> "None", action |-> <<0, 0>>]]

\* NimAI.__init__(alpha)
NimAIInit(a) ==
    /\ q = EmptyTable
    /\ alpha = a
    /\ updates = 0
    /\ aicall = NoCall

\* get_q_value(state, action)
GetQValue(state, action) ==
    /\ aicall' = [NoCall EXCEPT !.op = "get_q_value", !.state = state,
                                !.action = action,
                                !.ret = get_q_value(q, state, action)]
    /\ q' = table_after_get(q, <<state, action>>)
    /\ UNCHANGED <<alpha, updates>>

\* best_future_reward(state), its loop visiting the actions in this order
BestFutureReward(state, order) ==
    /\ aicall' = [NoCall EXCEPT !.op = "best_future_reward", !.state = state,
                                !.ret = best_future_reward(q, state, order)]
    /\ q' = table_after_loop(q, state, order, 1)
    /\ UNCHANGED <<alpha, updates>>

\* choose_action(state, epsilon): random.random() < self.epsilon is lucky,
\* and random.choice draws list(actions)[pick]
ChooseAction(state, epsilon, lucky, order, pick) ==
    /\ aicall' = [NoCall EXCEPT
                     !.op = "choose_action", !.state = state,
                     !.epsilon = epsilon, !.lucky = lucky,
                     !.chosen = choose_action(q, state, epsilon, lucky, order, pick)]
    /\ q' = IF epsilon /\ lucky THEN q ELSE table_after_loop(q, state, order, 1)
    /\ UNCHANGED <<alpha, updates>>

\* update(old_state, action, new_state, reward), the loop of its
\* best_future_reward visiting the actions of new_state in this order
Update(old_state, action, new_state, reward, order) ==
    LET old == get_q_value(q, old_state, action)
        t1 == table_after_get(q, <<old_state, action>>)
        best_future == best_future_reward(t1, new_state, order)
    IN  /\ updates' = updates + 1
        /\ q' = update(q, alpha, old_state, action, new_state, reward, order)
        /\ aicall' = [NoCall EXCEPT !.op = "update", !.state = old_state,
                                    !.action = action, !.new_state = new_state,
                                    !.reward = reward, !.old = old,
                                    !.best_future = best_future]
        /\ UNCHANGED alpha

\* The call returns to its caller: the program is single-threaded, and the
\* next call on the agent is made after this one has returned.
Return ==
    /\ aicall.op # "none"
    /\ aicall' = NoCall
    /\ UNCHANGED <<q, alpha, updates>>

-----------------------------------------------------------------------------
(* train                                                                   *)

\* One entry of last: {"state": None, "action": None} (set = FALSE) or the
\* state and action last recorded for the player.
NoLast == [set |-> FALSE, state |-> <<>>, action |-> <<0, 0>>]

\* last = {0: {"state": None, "action": None}, 1: {"state": None, "action": None}}
LastInit == [pl \in {0, 1} |-> NoLast]

\* No iteration of the game loop has been made.
NoPly == [k |-> 0, mover |-> 0, state |-> <<>>, lucky |-> FALSE,
          chosen |-> [kind |-> "None", action |-> <<0, 0>>], log |-> <<>>]

\* train has not been called.
TrainIdle ==
    /\ pc = "none" /\ numGames = 0 /\ games = 0
    /\ last = LastInit /\ ply = NoPly /\ played = <<>>

\* Mutant: state = game.piles without the copy, so that state is the list
\* the move changes.
recorded_state_alias(before, after) == after

\* state = game.piles.copy(): the piles as they were before the move.
recorded_state(before, after) == before

\* Mutant: the two rewards at the end of a game are exchanged.
ply_updates_swapped(lst, state, action, new_state, w, pl) ==
    IF w # None
    THEN << [set |-> TRUE, state |-> state, action |-> action,
             new_state |-> new_state, reward |-> 1],
            [set |-> lst[pl].set, state |-> lst[pl].state, action |-> lst[pl].action,
             new_state |-> new_state, reward |-> -1] >>
    ELSE IF lst[pl].set
    THEN << [set |-> TRUE, state |-> lst[pl].state, action |-> lst[pl].action,
             new_state |-> new_state, reward |-> 0] >>
    ELSE << >>

\* Mutant: the action that ends the game is not updated.
ply_updates_no_final(lst, state, action, new_state, w, pl) ==
    IF w # None
    THEN << [set |-> lst[pl].set, state |-> lst[pl].state, action |-> lst[pl].action,
             new_state |-> new_state, reward |-> 1] >>
    ELSE IF lst[pl].set
    THEN << [set |-> TRUE, state |-> lst[pl].state, action |-> lst[pl].action,
             new_state |-> new_state, reward |-> 0] >>
    ELSE << >>

\* Mutant: while the game continues the update is made for the player who
\* has just moved.
ply_updates_mover(lst, state, action, new_state, w, pl) ==
    IF w # None
    THEN << [set |-> TRUE, state |-> state, action |-> action,
             new_state |-> new_state, reward |-> -1],
            [set |-> lst[pl].set, state |-> lst[pl].state, action |-> lst[pl].action,
             new_state |-> new_state, reward |-> 1] >>
    ELSE << [set |-> TRUE, state |-> state, action |-> action,
             new_state |-> new_state, reward |-> 0] >>

\* The update calls of one iteration of the game loop, in order, after the
\* move: w is game.winner, pl is game.player (the player to move next) and
\* lst is last. set = FALSE is a call update(None, None, ...).
ply_updates(lst, state, action, new_state, w, pl) ==
    IF w # None
    THEN << [set |-> TRUE, state |-> state, action |-> action,
             new_state |-> new_state, reward |-> -1],
            [set |-> lst[pl].set, state |-> lst[pl].state, action |-> lst[pl].action,
             new_state |-> new_state, reward |-> 1] >>
    ELSE IF lst[pl].set
    THEN << [set |-> TRUE, state |-> lst[pl].state, action |-> lst[pl].action,
             new_state |-> new_state, reward |-> 0] >>
    ELSE << >>

\* update(None, None, ...) raises: tuple(None) in get_q_value is a TypeError.
update_raises(log) == \E k \in 1..Len(log) : ~log[k].set

RECURSIVE table_after_updates(_, _, _, _, _)
\* The table after the update calls log[k], log[k + 1], ... up to the first
\* that raises; orders[k] is the iteration order of the k-th call.
table_after_updates(t, a, log, k, orders) ==
    IF k > Len(log) \/ ~log[k].set THEN t
    ELSE table_after_updates(
             update(t, a, log[k].state, log[k].action, log[k].new_state,
                    log[k].reward, orders[k]),
             a, log, k + 1, orders)

RECURSIVE updates_made(_, _)
\* The number of update calls of log[k..] that return.
updates_made(log, k) ==
    IF k > Len(log) \/ ~log[k].set THEN 0 ELSE 1 + updates_made(log, k + 1)

\* player = NimAI() at the start of train(n_games)
TrainInit(n_games) ==
    /\ pc = "for" /\ numGames = n_games /\ games = 0
    /\ last = LastInit /\ ply = NoPly /\ played = <<>>
    /\ NimAIInit(<<1, 2>>)
    /\ NimInit(TrainPiles)

\* for i in range(n): game = Nim(); last = {...}
NewGame ==
    /\ pc = "for" /\ games < numGames
    /\ initial' = TrainPiles /\ piles' = TrainPiles
    /\ player' = 0 /\ winner' = None /\ moves' = 0
    /\ call' = [op |-> "init", action |-> <<0, 0>>, result |-> "ok", ret |-> {}]
    /\ last' = LastInit /\ played' = <<>> /\ ply' = NoPly
    /\ pc' = "while"
    /\ UNCHANGED <<q, alpha, updates, aicall, numGames, games>>

\* The positions of a game on TrainPiles.
TrainStates ==
    {s \in SeqsUpTo(0..MaxOf(TrainPiles, Len(TrainPiles)), Len(TrainPiles)) :
        /\ Len(s) = Len(TrainPiles)
        /\ \A k \in 1..Len(s) : s[k] <= TrainPiles[k]}

\* The orders a loop over the actions of each position may take.
TrainOrders == [s \in TrainStates |-> IterationOrders(available_actions(s))]

OrdersOf(s) ==
    IF s \in TrainStates THEN TrainOrders[s]
    ELSE IterationOrders(available_actions(s))

\* What player.choose_action(state) may return, with the table it leaves,
\* over the orders of the loop (order) and the draws of random.choice (pick).
choices(t, state, lucky) ==
    UNION { { << choose_action(t, state, TRUE, lucky, order, pick),
                 IF lucky THEN t ELSE table_after_loop(t, state, order, 1) >> :
              pick \in (IF lucky /\ order # <<>> THEN 1..Len(order) ELSE {1}) } :
            order \in OrdersOf(state) }

\* One iteration of "while True": choose_action(game.piles) with epsilon
\* True, the entry of last, game.move(action) and the updates. An exception
\* (of move, or of unpacking or updating None) ends train.
Ply ==
    /\ pc = "while"
    /\ \E lucky \in BOOLEAN : \E choice \in choices(q, piles, lucky) :
         LET chosen == choice[1]
             q1 == choice[2]
             mover == player
         IN  IF chosen.kind # "action"
             THEN /\ pc' = "raised"
                  /\ q' = q1
                  /\ ply' = [NoPly EXCEPT !.k = moves + 1, !.mover = mover,
                                          !.state = piles, !.lucky = lucky,
                                          !.chosen = chosen]
                  /\ last' = IF chosen.kind = "None"
                             THEN [last EXCEPT ![mover] = NoLast]
                             ELSE last
                  /\ UNCHANGED <<gameVars, updates, games, played>>
             ELSE /\ Move(chosen.action)
                  /\ LET state == recorded_state(piles, piles')
                         action == chosen.action
                         last1 == [last EXCEPT ![mover] =
                                      [set |-> TRUE, state |-> state,
                                       action |-> action]]
                         new_state == piles'
                         log == IF call'.result = "ok"
                                THEN ply_updates(last1, state, action, new_state,
                                                 winner', player')
                                ELSE << >>
                         failed == call'.result # "ok" \/ update_raises(log)
                     IN  /\ last' = last1
                         /\ played' = Append(played, <<state, action>>)
                         /\ ply' = [k |-> moves + 1, mover |-> mover, state |-> state,
                                    lucky |-> lucky, chosen |-> chosen, log |-> log]
                         /\ q' \in {table_after_updates(q1, alpha, log, 1, <<o1, o2>>) :
                                      o1 \in OrdersOf(new_state),
                                      o2 \in (IF Len(log) = 2 THEN OrdersOf(new_state)
                                              ELSE {<< >>})}
                         /\ updates' = updates + updates_made(log, 1)
                         /\ pc' = IF failed THEN "raised"
                                  ELSE IF winner' # None THEN "for" ELSE "while"
                         /\ games' = IF ~failed /\ winner' # None
                                     THEN games + 1 ELSE games
    /\ UNCHANGED <<alpha, aicall, numGames>>

\* The loop over the games is over: print("Done training"); return player
Finish ==
    /\ pc = "for" /\ games = numGames
    /\ pc' = "done"
    /\ UNCHANGED <<gameVars, aiVars, numGames, games, last, ply, played>>

-----------------------------------------------------------------------------
(* The game under arbitrary callers.                                       *)

\* The initial configurations: non-negative pile sizes.
Initials == SeqsUpTo(0..MaxPile, MaxPiles) \cup {DefaultPiles}

\* The arguments tried on move: every legal action and the illegal ones
\* next to them (pile index -1 and len(piles), count 0 and one too many).
MoveInputs == (-1..Len(piles)) \X (0..(MaxOf(piles, Len(piles)) + 1))

Init == /\ \E init \in Initials : NimInit(init)
        /\ NimAIInit(<<1, 2>>)
        /\ TrainIdle

MoveStep == /\ \E action \in MoveInputs : Move(action)
            /\ UNCHANGED <<aiVars, trainVars>>

AvailableActionsStep == AvailableActions /\ UNCHANGED <<aiVars, trainVars>>

Next == MoveStep \/ AvailableActionsStep

Spec == Init /\ [][Next]_vars

-----------------------------------------------------------------------------
(* The agent under arbitrary callers.                                      *)

\* The orders a loop over the actions of each studied position may take.
StudyOrders == [s \in StudyStates |-> IterationOrders(available_actions(s))]

InitAI == /\ NimInit(StudyPiles)
          /\ \E a \in Alphas : NimAIInit(a)
          /\ TrainIdle

GetQValueStep ==
    /\ aicall.op = "none"
    /\ \E state \in StudyStates : \E action \in available_actions(StudyPiles) :
            GetQValue(state, action)
    /\ UNCHANGED <<gameVars, trainVars>>

BestFutureRewardStep ==
    /\ aicall.op = "none"
    /\ \E state \in StudyStates : \E order \in StudyOrders[state] :
            BestFutureReward(state, order)
    /\ UNCHANGED <<gameVars, trainVars>>

\* The draws of random.random() and random.choice are free; pick is read
\* only when the random action is taken.
ChooseActionStep ==
    /\ aicall.op = "none"
    /\ \E state \in StudyStates, epsilon \in BOOLEAN, lucky \in BOOLEAN :
          \E order \in StudyOrders[state] :
            \E pick \in (IF epsilon /\ lucky /\ order # <<>>
                         THEN 1..Len(order) ELSE {1}) :
                ChooseAction(state, epsilon, lucky, order, pick)
    /\ UNCHANGED <<gameVars, trainVars>>

\* train calls update with a position, an action chosen in it, a later
\* position and a reward.
UpdateStep ==
    /\ aicall.op = "none"
    /\ updates < MaxUpdates
    /\ \E old_state \in StudyStates, new_state \in StudyStates, reward \in Rewards :
          \E action \in available_actions(old_state) :
            \E order \in StudyOrders[new_state] :
                Update(old_state, action, new_state, reward, order)
    /\ UNCHANGED <<gameVars, trainVars>>

ReturnStep == Return /\ UNCHANGED <<gameVars, trainVars>>

NextAI ==
    \/ GetQValueStep
    \/ BestFutureRewardStep
    \/ ChooseActionStep
    \/ UpdateStep
    \/ ReturnStep

SpecAI == InitAI /\ [][NextAI]_vars

-----------------------------------------------------------------------------
(* train(n) for every n up to MaxGames.                                    *)

InitTrain == \E n_games \in 0..MaxGames : TrainInit(n_games)

NextTrain == NewGame \/ Ply \/ Finish

SpecTrain == InitTrain /\ [][NextTrain]_vars

\* The program runs on while it has a step to take.
SpecTrainFair == SpecTrain /\ WF_vars(NextTrain)

-----------------------------------------------------------------------------
(* The vocabulary of the properties.                                       *)

AllPilesZero(p) == \A k \in DOMAIN p : p[k] = 0

SomePilePositive(p) == \E k \in DOMAIN p : p[k] > 0

\* The pairs (i, j) with 0 <= i < len(p) and 1 <= j <= p[i].
LegalActions(p) ==
    {a \in (0..(Len(p) - 1)) \X (1..MaxOf(p, Len(p))) : a[2] <= p[a[1] + 1]}

\* The value stored at (state, action), 0 when there is no entry.
Stored(t, state, action) ==
    IF <<state, action>> \in DOMAIN t THEN t[<<state, action>>] ELSE 0

\* The largest value of an available action of state, 0 when there is none.
MaxStored(t, state) ==
    LET values == {Stored(t, state, a) : a \in available_actions(state)}
    IN  IF values = {} THEN 0
        ELSE CHOOSE v \in values : \A w \in values : v >= w

\* A successful move has just been made.
MovedOk == call'.op = "move" /\ call'.result = "ok" /\ piles' # piles

\* The second move of the scenario: on [1,1], after player 0 took (0,1),
\* player 1 takes (1,1).
ScenarioStep ==
    /\ initial = <<1, 1>> /\ piles = <<0, 1>> /\ player = 1
    /\ call'.op = "move" /\ call'.action = <<1, 1>>

-----------------------------------------------------------------------------
(* Properties of the game, under Spec.                                     *)

\* C1, as stated: a successful move that leaves every pile at 0 sets winner
\* to the player who made the move and switches currentPlayer; the scenario
\* on [1,1] ends with piles [0,0] and winner = 1.
C1_AsStated ==
    [][ /\ (MovedOk /\ AllPilesZero(piles')) =>
              (winner' = player /\ player' = 1 - player)
        /\ ScenarioStep => (piles' = <<0, 0>> /\ winner' = 1)
      ]_vars

\* C1, amended: a successful move that leaves every pile at 0 sets winner to
\* the opponent of the player who made the move, who is the current player
\* after the switch; the scenario on [1,1] ends with piles [0,0] and
\* winner = 0.
C1_WinnerIsOpponentOfMover ==
    [][ /\ (MovedOk /\ AllPilesZero(piles')) =>
              (winner' = 1 - player /\ player' = 1 - player)
        /\ ScenarioStep => (piles' = <<0, 0>> /\ winner' = 0)
      ]_vars

\* The scenario on [1,1] has been played to its end.
C1_Witness ==
    /\ initial = <<1, 1>> /\ piles = <<0, 0>>
    /\ call.op = "move" /\ call.action = <<1, 1>> /\ call.result = "ok"
    /\ winner = 0 /\ player = 0

\* C2, as stated: for any initial configuration of non-negative pile sizes
\* and any sequence of move calls, winner is set if and only if every pile
\* is 0.
C2_AsStated == (winner # None) <=> AllPilesZero(piles)

\* C2, amended: winner is set only if every pile is 0, and, when the initial
\* configuration has a pile that is not 0, every pile is 0 only if winner
\* is set.
C2_WinnerIffAllZero ==
    /\ winner # None => AllPilesZero(piles)
    /\ SomePilePositive(initial) => (AllPilesZero(piles) => winner # None)

\* A game with objects has been won and a further move has failed on it.
C2_Witness ==
    /\ SomePilePositive(initial) /\ AllPilesZero(piles) /\ winner # None
    /\ call.op = "move" /\ call.result = "GameAlreadyWon"

\* C3: availableActions(p) is exactly the set of pairs (i, j) with
\* 0 <= i < len(p) and 1 <= j <= p[i]; its size is sum(p); it is empty
\* exactly when all piles are 0.
C3_AvailableActions ==
    call.op = "available_actions" =>
        /\ call.ret = LegalActions(piles)
        /\ Cardinality(call.ret) = SumOf(piles, Len(piles))
        /\ (call.ret = {}) <=> AllPilesZero(piles)

\* The actions of a position with an empty pile and three others were asked.
C3_Witness ==
    /\ call.op = "available_actions"
    /\ piles = <<0, 3, 5, 7>>
    /\ Cardinality(call.ret) = 15

\* C4: move fails with GameAlreadyWon if winner is set; otherwise with
\* InvalidPile if the pile index is outside [0, numPiles); otherwise with
\* InvalidCount if count < 1 or count > piles[pileIndex]; and on a game
\* without a winner it succeeds exactly when the action is available.
C4_MoveErrors ==
    [][ call'.op = "move" =>
          LET pile == call'.action[1]
              count == call'.action[2]
              result == call'.result
          IN  /\ winner # None => result = "GameAlreadyWon"
              /\ (winner = None /\ pile \notin 0..(Len(piles) - 1)) =>
                    result = "InvalidPile"
              /\ (winner = None /\ pile \in 0..(Len(piles) - 1)
                    /\ (count < 1 \/ count > piles[pile + 1])) =>
                    result = "InvalidCount"
              /\ winner = None =>
                    (result = "ok" <=> call'.action \in available_actions(piles))
      ]_vars

\* A move asking for more than its pile holds has failed with InvalidCount
\* on a game without a winner.
C4_Witness ==
    /\ call.op = "move" /\ call.result = "InvalidCount" /\ winner = None
    /\ call.action[1] \in 0..(Len(piles) - 1)
    /\ call.action[2] > piles[call.action[1] + 1]
    /\ piles[call.action[1] + 1] > 0

\* C5: once winner is set, every later move fails with GameAlreadyWon and
\* leaves piles, currentPlayer and winner unchanged; and a game constructed
\* on [1,3,5,7] has no winner before any move is made.
C5_TerminalAbsorbing ==
    /\ []((initial = DefaultPiles /\ piles = initial) => winner = None)
    /\ [][ (winner # None /\ call'.op = "move") =>
              /\ call'.result = "GameAlreadyWon"
              /\ piles' = piles /\ player' = player /\ winner' = winner
         ]_vars

\* A move naming a pile of the board and a count of 1 has failed on a won
\* game.
C5_Witness ==
    /\ winner # None /\ call.op = "move" /\ call.result = "GameAlreadyWon"
    /\ call.action[1] \in 0..(Len(piles) - 1) /\ call.action[2] = 1

-----------------------------------------------------------------------------
(* Properties of the agent, under SpecAI.                                  *)

\* C6: chooseAction on a state with no available actions raises an error
\* (NoAvailableActions), with explore true and with explore false; it never
\* returns a value that is not a legal action.
C6_RaisesOnNoActions ==
    (aicall.op = "choose_action" /\ available_actions(aicall.state) = {}) =>
        aicall.chosen.kind \notin {"None", "action"}

\* C7: with explore = false, on a state with an available action,
\* chooseAction returns an available action whose value (0 when absent) is
\* the maximum over the available actions; an action valued strictly higher
\* than all others is the one returned, whatever the order of iteration.
C7_GreedyIsMaximal ==
    (aicall.op = "choose_action" /\ ~aicall.epsilon
        /\ available_actions(aicall.state) # {}) =>
        LET state == aicall.state
            actions == available_actions(state)
            chosen == aicall.chosen
        IN  /\ chosen.kind = "action"
            /\ chosen.action \in actions
            /\ \A a \in actions :
                   Stored(q, state, chosen.action) >= Stored(q, state, a)
            /\ \A m \in actions :
                   (\A a \in actions \ {m} : Stored(q, state, m) > Stored(q, state, a))
                       => chosen.action = m

\* The greedy choice was made among three actions of which one is valued
\* above 0 and the others are not.
C7_Witness ==
    /\ aicall.op = "choose_action" /\ ~aicall.epsilon
    /\ aicall.state = StudyPiles
    /\ \E m \in available_actions(StudyPiles) :
          /\ Stored(q, StudyPiles, m) > 0
          /\ \A a \in available_actions(StudyPiles) \ {m} :
                 Stored(q, StudyPiles, a) < Stored(q, StudyPiles, m)
          /\ aicall.chosen.action = m

\* C8: after update(oldState, action, newState, reward) the value stored at
\* (oldState, action) is oldValue + alpha * ((reward + bestFuture) - oldValue),
\* oldValue and bestFuture taken on the table before the call; it is
\* alpha * reward when both are 0. (Values are scaled by Scale and alpha is
\* alpha[1] / alpha[2], so both sides are multiplied by alpha[2].)
C8_UpdateRule ==
    [][ aicall'.op = "update" =>
          LET c == aicall'
              key == <<c.state, c.action>>
              oldValue == Stored(q, c.state, c.action)
              bestFuture == MaxStored(q, c.new_state)
          IN  /\ key \in DOMAIN q'
              /\ q'[key] * alpha[2] =
                    oldValue * alpha[2]
                    + alpha[1] * ((c.reward * Scale + bestFuture) - oldValue)
              /\ (oldValue = 0 /\ bestFuture = 0) =>
                    q'[key] * alpha[2] = alpha[1] * c.reward * Scale
      ]_vars

\* An update was made whose old value and best future value were not 0.
C8_Witness ==
    /\ aicall.op = "update" /\ aicall.old # 0 /\ aicall.best_future # 0
    /\ aicall.reward # 0
    /\ <<aicall.state, aicall.action>> \in DOMAIN q

\* C9: bestFutureReward(state) is 0 when no action is available and
\* otherwise the maximum over the available actions of the stored value,
\* absent entries counted as 0; it is negative exactly when every available
\* action has a stored negative value, and it is not below 0 while some
\* available action has no entry.
C9_BestFutureReward ==
    aicall.op = "best_future_reward" =>
        LET state == aicall.state
            actions == available_actions(state)
            AllNegative == \A a \in actions :
                               /\ <<state, a>> \in DOMAIN q
                               /\ q[<<state, a>>] < 0
        IN  /\ actions = {} => aicall.ret = 0
            /\ aicall.ret = MaxStored(q, state)
            /\ aicall.ret < 0 <=> (actions # {} /\ AllNegative)
            /\ (\E a \in actions : <<state, a>> \notin DOMAIN q) => aicall.ret >= 0

\* The best future reward of a position with two actions, both stored with
\* negative values, was asked and is negative.
C9_Witness ==
    /\ aicall.op = "best_future_reward"
    /\ Cardinality(available_actions(aicall.state)) >= 2
    /\ aicall.ret < 0

\* C10: get returns the stored value when the key is present and 0 when it
\* is absent, and a call of get, bestFutureReward or chooseAction leaves the
\* table with the keys and values it had: a lookup creates no entry.
C10_LookupsAreReads ==
    [][ /\ aicall'.op = "get_q_value" =>
              aicall'.ret = Stored(q, aicall'.state, aicall'.action)
        /\ aicall'.op \in {"get_q_value", "best_future_reward", "choose_action"} =>
              q' = q
      ]_vars

\* get was asked for a key with no entry in a table that holds another
\* entry; it answered 0 and the key still has no entry.
C10_Witness ==
    /\ aicall.op = "get_q_value" /\ aicall.ret = 0
    /\ <<aicall.state, aicall.action>> \notin DOMAIN q
    /\ q # EmptyTable

-----------------------------------------------------------------------------
(* Properties of train, under SpecTrain (C12: under SpecTrainFair).        *)

\* The pairs played in the current game are all keys of the table.
PlayedAreStored == \A k \in 1..Len(played) : played[k] \in DOMAIN q

\* C11: train(0) returns an agent whose table is empty; train(1) returns an
\* agent whose table is not empty and has an entry for every (state, action)
\* pair played in that game, the first ply and the final ply included.
C11_TrainedTable ==
    /\ (pc = "done" /\ numGames = 0) => q = EmptyTable
    /\ (pc = "done" /\ numGames = 1) =>
          /\ q # EmptyTable
          /\ Len(played) >= 1
          /\ PlayedAreStored
          /\ played[1] \in DOMAIN q
          /\ played[Len(played)] \in DOMAIN q

\* train(1) has returned after a game of four plies, each with its entry.
C11_Witness ==
    /\ pc = "done" /\ numGames = 1
    /\ Len(played) = SumOf(TrainPiles, Len(TrainPiles))
    /\ Cardinality(DOMAIN q) = Len(played)

\* C12: train(n) terminates after exactly n complete games: at every ply of
\* an episode the total of the pile sizes strictly decreases, so every
\* episode reaches a winner after at most as many plies as the initial piles
\* hold objects (16 on the default piles; SumOf(TrainPiles) here).
C12_TrainTerminates ==
    /\ <>(pc = "done")
    /\ [](pc = "done" => games = numGames)
    /\ []((pc = "for" /\ games > 0) => winner # None)
    /\ [](Len(played) <= SumOf(TrainPiles, Len(TrainPiles)))
    /\ [][ pc = "while" =>
              /\ SumOf(piles', Len(piles')) < SumOf(piles, Len(piles))
              /\ games' = (IF winner' # None THEN games + 1 ELSE games)
         ]_vars

\* train(MaxGames) has returned and its last game took as many plies as the
\* piles hold objects.
C12_Witness ==
    /\ pc = "done" /\ numGames = MaxGames /\ games = MaxGames
    /\ Len(played) = SumOf(TrainPiles, Len(TrainPiles))

\* C13: in an episode the first ply makes no update; every later ply that
\* does not end the game makes exactly one update, with reward 0, of the
\* most recent (state, action) of the player who did not just move; the ply
\* that ends the game updates the pair just played with reward -1 and then
\* the other player's most recent pair, which is set, with reward +1; no
\* other update is made.
C13_UpdateOrder ==
    [][ pc = "while" =>
          LET p == ply'
              new == piles'
              justPlayed == <<piles, p.chosen.action>>
              \* the pair of the ply before this one, played by the other player
              before == played[Len(played)]
              Call(pair, reward) ==
                  [set |-> TRUE, state |-> pair[1], action |-> pair[2],
                   new_state |-> new, reward |-> reward]
          IN  /\ p.k = Len(played) + 1
              /\ p.k = 1 => (winner' = None /\ p.log = << >>)
              /\ (p.k > 1 /\ winner' = None) => p.log = << Call(before, 0) >>
              /\ winner' # None =>
                    (p.k > 1 /\ p.log = << Call(justPlayed, -1), Call(before, 1) >>)
              /\ updates' = updates + Len(p.log)
      ]_vars

\* A game has ended at its third ply or later, with its two updates.
C13_Witness ==
    /\ pc = "for" /\ winner # None /\ ply.k >= 3
    /\ Len(ply.log) = 2 /\ ply.log[1].reward = -1 /\ ply.log[2].reward = 1

-----------------------------------------------------------------------------
(* Frame properties of Nim.move, under Spec.                               *)

\* C14: a successful move(i, count) decreases piles[i] by exactly count,
\* leaves every other pile and the number of piles unchanged, and flips the
\* current player; no pile ever increases or becomes negative; the current
\* player after k successful moves is k mod 2.
C14_MoveFrame ==
    /\ [][ (call'.op = "move" /\ call'.result = "ok" /\ moves' # moves) =>
              LET i == call'.action[1] + 1
                  count == call'.action[2]
              IN  /\ moves' = moves + 1
                  /\ Len(piles') = Len(piles)
                  /\ i \in DOMAIN piles
                  /\ piles'[i] = piles[i] - count
                  /\ \A k \in DOMAIN piles : k # i => piles'[k] = piles[k]
                  /\ player' = 1 - player
         ]_vars
    /\ [][ /\ Len(piles') = Len(piles)
           /\ \A k \in DOMAIN piles : piles'[k] <= piles[k] ]_vars
    /\ [](\A k \in DOMAIN piles : piles[k] >= 0)
    /\ [](player = moves % 2)

\* Three successful moves were made on the default piles, the last one
\* taking more than one object from a pile other than the first.
C14_Witness ==
    /\ initial = DefaultPiles /\ moves = 3 /\ player = 1
    /\ call.op = "move" /\ call.result = "ok"
    /\ call.action[1] > 0 /\ call.action[2] > 1

\* C15: when a move empties all piles, the winner recorded is the new
\* current player; in every reachable state, if the winner is set then it
\* equals the current player.
C15_WinnerIsCurrentPlayer ==
    /\ [][ (MovedOk /\ AllPilesZero(piles')) =>
              (winner' = player' /\ winner' = 1 - player) ]_vars
    /\ [](winner # None => winner = player)

\* A game on the default piles has been played to its end.
C15_Witness ==
    /\ initial = DefaultPiles /\ AllPilesZero(piles)
    /\ winner # None /\ winner = player
    /\ call.op = "move" /\ call.result = "ok"

-----------------------------------------------------------------------------
(* Frame property of the table, under SpecAI.                              *)

\* C16: the table is empty at construction and its key set only grows;
\* update(oldState, action, newState, reward) inserts or overwrites exactly
\* the entry (oldState, action) and leaves every other entry unchanged; no
\* operation removes a key.
C16_TableOnlyGrows ==
    /\ [](updates = 0 => q = EmptyTable)
    /\ [][ /\ DOMAIN q \subseteq DOMAIN q'
           /\ aicall'.op # "update" => q' = q
           /\ aicall'.op = "update" =>
                LET key == <<aicall'.state, aicall'.action>>
                IN  /\ DOMAIN q' = DOMAIN q \cup {key}
                    /\ \A k \in DOMAIN q : k # key => q'[k] = q[k]
       ]_vars

\* A second update has added a second entry and left the first one alone.
C16_Witness ==
    /\ aicall.op = "update" /\ updates = 2
    /\ Cardinality(DOMAIN q) = 2
    /\ \E k \in DOMAIN q : k # <<aicall.state, aicall.action>> /\ q[k] # 0

-----------------------------------------------------------------------------
(* Invariants of the table that train builds, under SpecTrain.             *)

\* C17: during train, alpha being in (0, 1], every stored value lies in
\* [-1, 1], and so does bestFutureReward of every position.
C17_ValuesBounded ==
    /\ 0 < alpha[1] /\ alpha[1] <= alpha[2]
    /\ \A key \in DOMAIN q : -Scale <= q[key] /\ q[key] <= Scale
    /\ \A s \in TrainStates :
          /\ -Scale <= MaxStored(q, s) /\ MaxStored(q, s) <= Scale
          /\ \A order \in OrdersOf(s) :
                best_future_reward(q, s, order) = MaxStored(q, s)

\* Some entry has been pushed below -1/2 and another above 1/2.
C17_Witness ==
    /\ \E key \in DOMAIN q : q[key] * 2 < -Scale
    /\ \E key \in DOMAIN q : q[key] * 2 > Scale

\* C18: every key of the table is a legal pair: its state has the length of
\* the initial piles, each component between 0 and the initial size of its
\* pile, and its action is an available action of that state; the state
\* recorded for a ply is the configuration before the action was applied.
C18_KeysAreLegal ==
    /\ [](\A key \in DOMAIN q :
             /\ Len(key[1]) = Len(initial)
             /\ \A k \in 1..Len(key[1]) : 0 <= key[1][k] /\ key[1][k] <= initial[k]
             /\ key[2] \in available_actions(key[1]))
    /\ [][ pc = "while" =>
              /\ ply'.state = piles
              /\ played' = Append(played, <<piles, ply'.chosen.action>>)
              /\ last'[player] = [set |-> TRUE, state |-> piles,
                                  action |-> ply'.chosen.action]
              /\ piles' # piles
         ]_vars

\* train has returned with entries for five or more different pairs.
C18_Witness ==
    /\ pc = "done" /\ Cardinality(DOMAIN q) >= 5
    /\ \E key \in DOMAIN q : key[1] = TrainPiles
    /\ \E key \in DOMAIN q : key[1] # TrainPiles

\* C19: chooseAction, called on a position that has actions, returns one of
\* its available actions in both modes, so that train never raises
\* GameAlreadyWon, InvalidPile or InvalidCount.
C19_TrainNeverRaises ==
    /\ pc # "raised"
    /\ call.result = "ok"
    /\ ply.k > 0 =>
          /\ ply.chosen.kind = "action"
          /\ ply.chosen.action \in available_actions(ply.state)
    /\ pc = "while" =>
          /\ available_actions(piles) # {}
          /\ \A lucky \in BOOLEAN : \A order \in OrdersOf(piles) :
             \A pick \in 1..Len(order) :
                LET chosen == choose_action(q, piles, TRUE, lucky, order, pick)
                IN  /\ chosen.kind = "action"
                    /\ chosen.action \in available_actions(piles)
                    /\ move_error(piles, winner, chosen.action) = "ok"

\* A greedy choice was made on a table that has entries, after a random one
\* is possible too: the ply is the second or a later one of its game.
C19_Witness ==
    /\ ~ply.lucky /\ ply.k >= 2 /\ q # EmptyTable
    /\ Stored(q, ply.state, ply.chosen.action) > 0
    /\ call.op = "move" /\ call.result = "ok"

\* The action removes every object that is left in state.
TakesAll(state, action) ==
    /\ action[1] + 1 \in DOMAIN state
    /\ state[action[1] + 1] = action[2] /\ action[2] >= 1
    /\ \A k \in DOMAIN state : k # action[1] + 1 => state[k] = 0

\* C20: every stored entry whose action removes all remaining objects has a
\* strictly negative value: such an entry is only ever updated with reward
\* -1 and a best future reward of 0.
C20_LosingMoveNegative ==
    /\ \A key \in DOMAIN q : TakesAll(key[1], key[2]) => q[key] < 0
    /\ \A k \in 1..Len(ply.log) :
          TakesAll(ply.log[k].state, ply.log[k].action) =>
             /\ ply.log[k].reward = -1
             /\ AllPilesZero(ply.log[k].new_state)
             /\ \A order \in OrdersOf(ply.log[k].new_state) :
                   best_future_reward(q, ply.log[k].new_state, order) = 0

\* The entry of an action that takes the last objects was updated twice.
C20_Witness ==
    /\ Len(ply.log) = 2
    /\ TakesAll(ply.log[1].state, ply.log[1].action)
    /\ <<ply.log[1].state, ply.log[1].action>> \in DOMAIN q
    /\ q[<<ply.log[1].state, ply.log[1].action>>] * 2 < -Scale

=============================================================================
